---------------------------- MODULE Spec2Model ----------------------------
(***************************************************************************)
(* DetourGuard (minhook-detours-rs): the guard that initializes the        *)
(* MinHook engine, registers / enables / disables hooks through it and     *)
(* uninitializes it on close or drop.                                      *)
(*                                                                         *)
(* The engine (MH_* functions of minhook-detours-sys) is an external       *)
(* collaborator; it is modelled from the capability interface of the       *)
(* specification.  The guard's methods are translated from                 *)
(* src/src/guard/mod.rs, the status mapping from src/src/error/mod.rs.     *)
(***************************************************************************)
EXTENDS Integers, Sequences, FiniteSets, TLC

(***************************************************************************)
(* Bounds.                                                                 *)
(***************************************************************************)
\* Number of guards ever constructed in one run.
MaxGuards == 2
\* Number of elements the live guards' original_pointers hold together, in
\* the runs of Spec.
MaxCreate == 2
\* The same in the runs of SpecLife, which interleave all the guards.
MaxLifeCreate == 1
\* The same in the runs of SpecVec, which follow one guard until its Vec has
\* outgrown its first allocation.
MaxPush == 5

(***************************************************************************)
(* Addresses.                                                              *)
(***************************************************************************)
Fn(x) == [kind |-> "fn", id |-> x]
\* The trampoline the engine allocates for target t.
Tramp(t) == [kind |-> "tramp", id |-> t.id]
NullPtr == [kind |-> "null", id |-> "null"]
\* const MH_ALL_HOOKS: *mut c_void = std::ptr::null_mut();
MH_ALL_HOOKS == NullPtr

\* Addresses of hookable functions and of replacement functions.
Targets == {Fn("T1"), Fn("T2")}
Detours == {Fn("R1"), Fn("R2")}

(***************************************************************************)
(* Statuses and errors.                                                    *)
(***************************************************************************)
MH_OK == "MH_OK"

NativeErrors ==
    { "MH_ERROR_ALREADY_INITIALIZED", "MH_ERROR_NOT_INITIALIZED",
      "MH_ERROR_UNABLE_TO_UNINITIALIZE", "MH_ERROR_ALREADY_CREATED",
      "MH_ERROR_NOT_CREATED", "MH_ERROR_ENABLED", "MH_ERROR_DISABLED",
      "MH_ERROR_NOT_EXECUTABLE", "MH_ERROR_DETOURS_TRANSACTION_BEGIN",
      "MH_ERROR_DETOURS_TRANSACTION_COMMIT", "MH_ERROR_UNSUPPORTED_FUNCTION",
      "MH_ERROR_MEMORY_ALLOC", "MH_ERROR_MODULE_NOT_FOUND",
      "MH_ERROR_FUNCTION_NOT_FOUND" }

Ok == "Ok"

\* A typo-style slip of the mapping: two neighbouring arms swapped.
ErrorFromSwapped(value) ==
    CASE value = "MH_ERROR_ALREADY_INITIALIZED" -> "AlreadyInitialized"
      [] value = "MH_ERROR_NOT_INITIALIZED" -> "NotInitialized"
      [] value = "MH_ERROR_UNABLE_TO_UNINITIALIZE" -> "UnableToInitialize"
      [] value = "MH_ERROR_ALREADY_CREATED" -> "NotCreated"
      [] value = "MH_ERROR_NOT_CREATED" -> "AlreadyCreated"
      [] value = "MH_ERROR_ENABLED" -> "Disabled"
      [] value = "MH_ERROR_DISABLED" -> "Enabled"
      [] value = "MH_ERROR_NOT_EXECUTABLE" -> "NotExecutable"
      [] value = "MH_ERROR_DETOURS_TRANSACTION_BEGIN" -> "FailedTransactionBegin"
      [] value = "MH_ERROR_DETOURS_TRANSACTION_COMMIT" -> "FailedTransactionCommit"
      [] value = "MH_ERROR_UNSUPPORTED_FUNCTION" -> "UnsupportedFunction"
      [] value = "MH_ERROR_MEMORY_ALLOC" -> "FailedAllocatingMemory"
      [] value = "MH_ERROR_MODULE_NOT_FOUND" -> "ModuleNotFound"
      [] value = "MH_ERROR_FUNCTION_NOT_FOUND" -> "FunctionNotFound"
      [] OTHER -> "unreachable"

\* impl From<MH_STATUS> for Error
ErrorFrom(value) ==
    CASE value = "MH_ERROR_ALREADY_INITIALIZED" -> "AlreadyInitialized"
      [] value = "MH_ERROR_NOT_INITIALIZED" -> "NotInitialized"
      [] value = "MH_ERROR_UNABLE_TO_UNINITIALIZE" -> "UnableToInitialize"
      [] value = "MH_ERROR_ALREADY_CREATED" -> "AlreadyCreated"
      [] value = "MH_ERROR_NOT_CREATED" -> "NotCreated"
      [] value = "MH_ERROR_ENABLED" -> "Enabled"
      [] value = "MH_ERROR_DISABLED" -> "Disabled"
      [] value = "MH_ERROR_NOT_EXECUTABLE" -> "NotExecutable"
      [] value = "MH_ERROR_DETOURS_TRANSACTION_BEGIN" -> "FailedTransactionBegin"
      [] value = "MH_ERROR_DETOURS_TRANSACTION_COMMIT" -> "FailedTransactionCommit"
      [] value = "MH_ERROR_UNSUPPORTED_FUNCTION" -> "UnsupportedFunction"
      [] value = "MH_ERROR_MEMORY_ALLOC" -> "FailedAllocatingMemory"
      [] value = "MH_ERROR_MODULE_NOT_FOUND" -> "ModuleNotFound"
      [] value = "MH_ERROR_FUNCTION_NOT_FOUND" -> "FunctionNotFound"
      [] OTHER -> "unreachable"

(***************************************************************************)
(* ThreadFreezeMethod and its conversions.                                 *)
(***************************************************************************)
ThreadFreezeMethod == {"Original", "None"}

NativeFreezeMethods ==
    { "MH_FREEZE_METHOD_ORIGINAL", "MH_FREEZE_METHOD_FAST_UNDOCUMENTED",
      "MH_FREEZE_METHOD_NONE_UNSAFE" }

\* A conversion that lacks the arm of the undocumented fast variant.
ThreadFreezeMethodFromTwoArms(value) ==
    CASE value = "MH_FREEZE_METHOD_ORIGINAL" -> "Original"
      [] value = "MH_FREEZE_METHOD_NONE_UNSAFE" -> "None"
      [] OTHER -> "unreachable"

\* impl From<MH_THREAD_FREEZE_METHOD> for ThreadFreezeMethod
ThreadFreezeMethodFrom(value) ==
    CASE value = "MH_FREEZE_METHOD_ORIGINAL" -> "Original"
      [] value = "MH_FREEZE_METHOD_FAST_UNDOCUMENTED" -> "Original"
      [] value = "MH_FREEZE_METHOD_NONE_UNSAFE" -> "None"
      [] OTHER -> "unreachable"

\* impl Into<MH_THREAD_FREEZE_METHOD> for ThreadFreezeMethod
ThreadFreezeMethodInto(self) ==
    CASE self = "Original" -> "MH_FREEZE_METHOD_ORIGINAL"
      [] self = "None" -> "MH_FREEZE_METHOD_NONE_UNSAFE"

(***************************************************************************)
(* The engine.  e = [init, hooks, freeze]; every function takes the fault  *)
(* f the environment injects into this call ("none": no fault) and returns *)
(* the new engine state and the native status.                             *)
(***************************************************************************)
NoHook == [created |-> FALSE, detour |-> NullPtr, enabled |-> FALSE]

EmptyTable == [t \in Targets |-> NoHook]

EngineInit ==
    [init |-> FALSE, hooks |-> EmptyTable, freeze |-> "MH_FREEZE_METHOD_ORIGINAL"]

UninitFaults == {"none", "MH_ERROR_UNABLE_TO_UNINITIALIZE"}
CreateFaults == {"none", "MH_ERROR_MEMORY_ALLOC"}
TxFaults == {"none", "MH_ERROR_DETOURS_TRANSACTION_BEGIN",
             "MH_ERROR_DETOURS_TRANSACTION_COMMIT"}

\* engine_init() -> status
MH_Initialize(e) ==
    IF e.init
    THEN [e |-> e, st |-> "MH_ERROR_ALREADY_INITIALIZED"]
    ELSE [e |-> [e EXCEPT !.init = TRUE], st |-> MH_OK]

\* engine_uninit() -> status: disables and removes every hook.
MH_Uninitialize(e, f) ==
    IF ~e.init THEN [e |-> e, st |-> "MH_ERROR_NOT_INITIALIZED"]
    ELSE IF f # "none" THEN [e |-> e, st |-> f]
    ELSE [e |-> [e EXCEPT !.init = FALSE, !.hooks = EmptyTable], st |-> MH_OK]

\* engine_set_freeze_policy(native_policy) -> status
MH_SetThreadFreezeMethod(e, m) ==
    IF ~e.init THEN [e |-> e, st |-> "MH_ERROR_NOT_INITIALIZED"]
    ELSE [e |-> [e EXCEPT !.freeze = m], st |-> MH_OK]

\* engine_register(target, replacement) -> (status, original)
MH_CreateHook(e, target, detour, f) ==
    IF ~e.init
    THEN [e |-> e, st |-> "MH_ERROR_NOT_INITIALIZED", orig |-> NullPtr]
    ELSE IF target \notin Targets
    THEN [e |-> e, st |-> "MH_ERROR_NOT_EXECUTABLE", orig |-> NullPtr]
    ELSE IF e.hooks[target].created
    THEN [e |-> e, st |-> "MH_ERROR_ALREADY_CREATED", orig |-> NullPtr]
    ELSE IF f # "none" THEN [e |-> e, st |-> f, orig |-> NullPtr]
    ELSE [e |-> [e EXCEPT !.hooks[target] =
                    [created |-> TRUE, detour |-> detour, enabled |-> FALSE]],
          st |-> MH_OK, orig |-> Tramp(target)]

\* The hook table with every registered hook set to `enable`.
SetAll(hooks, enable) ==
    [t \in Targets |->
        IF hooks[t].created THEN [hooks[t] EXCEPT !.enabled = enable]
        ELSE hooks[t]]

\* engine_enable / engine_disable(target_or_all_sentinel) -> status: one
\* begin/commit transaction under the current freeze policy.
EnableHookLL(e, target, enable, f) ==
    IF ~e.init THEN [e |-> e, st |-> "MH_ERROR_NOT_INITIALIZED"]
    ELSE IF target = MH_ALL_HOOKS
    THEN IF f # "none" THEN [e |-> e, st |-> f]
         ELSE [e |-> [e EXCEPT !.hooks = SetAll(e.hooks, enable)], st |-> MH_OK]
    ELSE IF target \notin Targets \/ ~e.hooks[target].created
    THEN [e |-> e, st |-> "MH_ERROR_NOT_CREATED"]
    ELSE IF e.hooks[target].enabled = enable
    THEN [e |-> e,
          st |-> IF enable THEN "MH_ERROR_ENABLED" ELSE "MH_ERROR_DISABLED"]
    ELSE IF f # "none" THEN [e |-> e, st |-> f]
    ELSE [e |-> [e EXCEPT !.hooks[target].enabled = enable], st |-> MH_OK]

MH_EnableHook(e, target, f) == EnableHookLL(e, target, TRUE, f)

MH_DisableHook(e, target, f) == EnableHookLL(e, target, FALSE, f)

\* The function whose body runs when `target` is called.
Runs(e, target) ==
    IF e.hooks[target].created /\ e.hooks[target].enabled
    THEN e.hooks[target].detour
    ELSE target

\* One engine call as recorded in the log of an operation.
Call(fn, arg) == [fn |-> fn, arg |-> arg]


(***************************************************************************)
(* DetourGuard's methods, as functions of the engine state (and of the     *)
(* guard's Vec where they touch it).  Each returns the new engine state,   *)
(* the Result (Ok or the Error) and the engine calls it issued.            *)
(***************************************************************************)
\* A slip of the status test: a redundant disable is taken for a success.
ResultOfLax(status) ==
    IF status \in {MH_OK, "MH_ERROR_DISABLED"} THEN Ok ELSE ErrorFrom(status)

\* Result of a native status: Ok for MH_OK, Err(Error::from(status)) else.
ResultOf(status) == IF status = MH_OK THEN Ok ELSE ErrorFrom(status)

\* A slip of new(): the status of MH_Initialize is not looked at.
new_unchecked(e) ==
    LET r == MH_Initialize(e)
    IN  [e |-> r.e, res |-> Ok, calls |-> <<Call("MH_Initialize", NullPtr)>>,
         sts |-> <<r.st>>]

\* pub fn new() -> Result<Self>
new(e) ==
    LET r == MH_Initialize(e)
    IN  [e |-> r.e, res |-> ResultOf(r.st),
         calls |-> <<Call("MH_Initialize", NullPtr)>>,
         sts |-> <<r.st>>]

\* A try_close that only disables the hooks and leaves them registered.
try_close_disabling(e, f) ==
    LET r == MH_DisableHook(e, MH_ALL_HOOKS, f)
    IN  [e |-> r.e, res |-> ResultOf(r.st),
         calls |-> <<Call("MH_DisableHook", MH_ALL_HOOKS)>>,
         sts |-> <<r.st>>]

\* pub fn try_close(&mut self) -> Result<()>
try_close(e, f) ==
    LET r == MH_Uninitialize(e, f)
    IN  [e |-> r.e, res |-> ResultOf(r.st),
         calls |-> <<Call("MH_Uninitialize", NullPtr)>>,
         sts |-> <<r.st>>]

\* impl Drop for DetourGuard: try_close, the error only printed (diag).
drop(e, f) ==
    LET r == try_close(e, f)
    IN  [e |-> r.e, diag |-> r.res, calls |-> r.calls, sts |-> r.sts]

\* A close() that hands the guard back on failure instead of dropping it.
close_keeping(e, f1, f2) ==
    LET a == try_close(e, f1)
    IN  IF a.res = Ok
        THEN [e |-> a.e, res |-> Ok, calls |-> a.calls, sts |-> a.sts, fate |-> "forgotten",
              diag |-> "none"]
        ELSE [e |-> a.e, res |-> a.res, calls |-> a.calls, sts |-> a.sts, fate |-> "owned",
              diag |-> "none"]

\* pub fn close(mut self) -> Result<()>: `?` returns early on Err and `self`,
\* taken by value, is dropped on that path (f2: the fault of drop's call);
\* on Ok it is forgotten and never dropped.
close(e, f1, f2) ==
    LET a == try_close(e, f1)
    IN  IF a.res = Ok
        THEN [e |-> a.e, res |-> Ok, calls |-> a.calls, sts |-> a.sts, fate |-> "forgotten",
              diag |-> "none"]
        ELSE LET d == drop(a.e, f2)
             IN  [e |-> d.e, res |-> a.res, calls |-> a.calls \o d.calls,
                  sts |-> a.sts \o d.sts,
                  fate |-> "dropped", diag |-> d.diag]

\* A set_thread_freeze_method that switches every hook off before it sets
\* the policy.
set_thread_freeze_method_disabling(e, m) ==
    LET native == ThreadFreezeMethodInto(m)
        d == MH_DisableHook(e, MH_ALL_HOOKS, "none")
        r == MH_SetThreadFreezeMethod(d.e, native)
    IN  [e |-> r.e, res |-> ResultOf(r.st),
         calls |-> <<Call("MH_SetThreadFreezeMethod", native)>>,
         sts |-> <<r.st>>]

\* pub fn set_thread_freeze_method(&mut self, m) -> Result<()>
set_thread_freeze_method(e, m) ==
    LET native == ThreadFreezeMethodInto(m)
        r == MH_SetThreadFreezeMethod(e, native)
    IN  [e |-> r.e, res |-> ResultOf(r.st),
         calls |-> <<Call("MH_SetThreadFreezeMethod", native)>>,
         sts |-> <<r.st>>]

\* A slip of enable_hook: the null check left out.
enable_hook_nocheck(e, target, f) ==
    LET r == MH_EnableHook(e, target, f)
    IN  [e |-> r.e, res |-> ResultOf(r.st),
         calls |-> <<Call("MH_EnableHook", target)>>,
         sts |-> <<r.st>>]

\* pub fn enable_hook(&mut self, target) -> Result<()>
enable_hook(e, target, f) ==
    IF target = NullPtr
    THEN [e |-> e, res |-> "InvalidTarget", calls |-> <<>>, sts |-> <<>>]
    ELSE LET r == MH_EnableHook(e, target, f)
         IN  [e |-> r.e, res |-> ResultOf(r.st),
              calls |-> <<Call("MH_EnableHook", target)>>,
         sts |-> <<r.st>>]

\* A slip of enable_all_hooks: it addresses the first target only.
enable_all_hooks_first(e, f) ==
    LET r == MH_EnableHook(e, Fn("T1"), f)
    IN  [e |-> r.e, res |-> ResultOf(r.st),
         calls |-> <<Call("MH_EnableHook", Fn("T1"))>>,
         sts |-> <<r.st>>]

\* pub fn enable_all_hooks(&mut self) -> Result<()>
enable_all_hooks(e, f) ==
    LET r == MH_EnableHook(e, MH_ALL_HOOKS, f)
    IN  [e |-> r.e, res |-> ResultOf(r.st),
         calls |-> <<Call("MH_EnableHook", MH_ALL_HOOKS)>>,
         sts |-> <<r.st>>]

\* pub fn disable_hook(&mut self, target) -> Result<()>
disable_hook(e, target, f) ==
    IF target = NullPtr
    THEN [e |-> e, res |-> "InvalidTarget", calls |-> <<>>, sts |-> <<>>]
    ELSE LET r == MH_DisableHook(e, target, f)
         IN  [e |-> r.e, res |-> ResultOf(r.st),
              calls |-> <<Call("MH_DisableHook", target)>>,
         sts |-> <<r.st>>]

\* A disable_all_hooks that walks the targets, one engine call for each.
disable_all_hooks_each(e, f) ==
    LET a == MH_DisableHook(e, Fn("T1"), f)
        b == MH_DisableHook(a.e, Fn("T2"), f)
    IN  [e |-> b.e, res |-> ResultOf(b.st),
         calls |-> <<Call("MH_DisableHook", Fn("T1")),
                     Call("MH_DisableHook", Fn("T2"))>>,
         sts |-> <<a.st, b.st>>]

\* pub fn disable_all_hooks(&mut self) -> Result<()>
disable_all_hooks(e, f) ==
    LET r == MH_DisableHook(e, MH_ALL_HOOKS, f)
    IN  [e |-> r.e, res |-> ResultOf(r.st),
         calls |-> <<Call("MH_DisableHook", MH_ALL_HOOKS)>>,
         sts |-> <<r.st>>]

(***************************************************************************)
(* original_pointers: Vec<*mut c_void>.  v = [ptrs, cap, buf]: the         *)
(* elements, the capacity and the identity of the heap buffer that holds   *)
(* them (0: none allocated yet).                                           *)
(***************************************************************************)
\* Vec's smallest non-zero capacity for pointer-sized elements.
MinNonZeroCap == 4

Max(a, b) == IF a >= b THEN a ELSE b

VecNew == [ptrs |-> <<>>, cap |-> 0, buf |-> 0]

\* self.original_pointers.push(x).  A full Vec grows to max(2*cap, 4); the
\* allocator then either extends the buffer in place or moves the elements
\* to a new buffer and frees the old one (moved).
VecPush(v, x, moved) ==
    IF Len(v.ptrs) < v.cap
    THEN [v EXCEPT !.ptrs = Append(v.ptrs, x)]
    ELSE [ptrs |-> Append(v.ptrs, x),
          cap |-> Max(2 * v.cap, MinNonZeroCap),
          buf |-> IF v.cap = 0 \/ moved THEN v.buf + 1 ELSE v.buf]

\* A reference to the element idx of the buffer buf, as create_hook returns.
Handle(buf, idx) == [buf |-> buf, idx |-> idx]

NoHandle == Handle(0, 0)

\* A slip of create_hook: the status of MH_CreateHook is not looked at.
create_hook_unchecked(e, v, target, detour, f, moved) ==
    LET v1 == VecPush(v, NullPtr, moved)
        idx == Len(v1.ptrs)
        r == MH_CreateHook(e, target, detour, f)
        v2 == IF r.st = MH_OK THEN [v1 EXCEPT !.ptrs[idx] = r.orig] ELSE v1
    IN  [e |-> r.e, v |-> v2, res |-> Ok, handle |-> Handle(v2.buf, idx),
         calls |-> <<Call("MH_CreateHook", target)>>,
         sts |-> <<r.st>>]

\* A create_hook that also activates the hook it has registered.
create_hook_enabling(e, v, target, detour, f, moved) ==
    LET v1 == VecPush(v, NullPtr, moved)
        idx == Len(v1.ptrs)
        r == MH_CreateHook(e, target, detour, f)
        v2 == IF r.st = MH_OK THEN [v1 EXCEPT !.ptrs[idx] = r.orig] ELSE v1
        n == IF r.st = MH_OK THEN MH_EnableHook(r.e, target, "none").e ELSE r.e
    IN  [e |-> n, v |-> v2, res |-> ResultOf(r.st),
         handle |-> IF r.st = MH_OK THEN Handle(v2.buf, idx) ELSE NoHandle,
         calls |-> <<Call("MH_CreateHook", target)>>,
         sts |-> <<r.st>>]

\* pub fn create_hook<T>(&mut self, target, detour) -> Result<&'a T>
create_hook(e, v, target, detour, f, moved) ==
    LET v1 == VecPush(v, NullPtr, moved)
        idx == Len(v1.ptrs)
        r == MH_CreateHook(e, target, detour, f)
        \* the engine stores the trampoline through ppOriginal on success
        v2 == IF r.st = MH_OK THEN [v1 EXCEPT !.ptrs[idx] = r.orig] ELSE v1
    IN  [e |-> r.e, v |-> v2, res |-> ResultOf(r.st),
         handle |-> IF r.st = MH_OK THEN Handle(v2.buf, idx) ELSE NoHandle,
         calls |-> <<Call("MH_CreateHook", target)>>,
         sts |-> <<r.st>>]

\* A create_and_enable_hook that forgets to enable.
create_and_enable_hook_noenable(e, v, target, detour, f1, f2, moved) ==
    create_hook(e, v, target, detour, f1, moved)

\* A create_and_enable_hook that takes the registration back when the
\* enable step fails.
create_and_enable_hook_rollback(e, v, target, detour, f1, f2, moved) ==
    LET c == create_hook(e, v, target, detour, f1, moved)
    IN  IF c.res # Ok THEN c
        ELSE LET n == enable_hook(c.e, target, f2)
             IN  [e |-> IF n.res = Ok THEN n.e ELSE e, v |-> c.v,
                  res |-> n.res,
                  handle |-> IF n.res = Ok THEN c.handle ELSE NoHandle,
                  calls |-> c.calls \o n.calls, sts |-> c.sts \o n.sts]

\* pub fn create_and_enable_hook<T>(&mut self, target, detour) -> Result<&'a T>
create_and_enable_hook(e, v, target, detour, f1, f2, moved) ==
    LET c == create_hook(e, v, target, detour, f1, moved)
    IN  IF c.res # Ok THEN c
        ELSE LET n == enable_hook(c.e, target, f2)
             IN  [e |-> n.e, v |-> c.v, res |-> n.res,
                  handle |-> IF n.res = Ok THEN c.handle ELSE NoHandle,
                  calls |-> c.calls \o n.calls, sts |-> c.sts \o n.sts]

(***************************************************************************)
(* State.                                                                  *)
(*   engine     the process-wide engine context                            *)
(*   guards[g]  the g-th DetourGuard: st is "none" (not constructed yet),  *)
(*              "owned" (a caller owns the value) or "gone" (forgotten by  *)
(*              a successful close(), or dropped); v its                   *)
(*              original_pointers; handed[i] the buffer the reference      *)
(*              returned for element i points into (0: no reference was    *)
(*              returned for i); closedOk whether an explicit              *)
(*              try_close() on it has returned Ok                          *)
(*   last       the operation just performed: its guard, arguments, Result,*)
(*              engine calls (calls) and the native statuses they returned *)
(*              (sts), what became of the guard value (fate)               *)
(*              and what Drop, if it ran, got from try_close (diag)        *)
(***************************************************************************)
VARIABLES engine, guards, last

vars == <<engine, guards, last>>

GuardIds == 1..MaxGuards

\* The first guard alone.
FirstGuard == {1}

\* One hookable function and one replacement function.
OneTarget == {Fn("T1")}
OneDetour == {Fn("R1")}

\* No DetourGuard value yet.
NoGuard == [st |-> "none", v |-> VecNew, handed |-> <<>>, closedOk |-> FALSE]

\* impl Default for DetourGuard
GuardDefault == [st |-> "owned", v |-> VecNew, handed |-> <<>>, closedOk |-> FALSE]

\* The guard value is gone: forgotten (its Vec leaked, out of anyone's reach)
\* or dropped (its Vec freed).
Gone == [st |-> "gone", v |-> VecNew, handed |-> <<>>, closedOk |-> FALSE]

Op(op, g, target, detour, res, calls, sts, fate, diag) ==
    [op |-> op, g |-> g, target |-> target, detour |-> detour, res |-> res,
     calls |-> calls, sts |-> sts, fate |-> fate, diag |-> diag]

Init ==
    /\ engine = EngineInit
    /\ guards = [g \in GuardIds |-> NoGuard]
    /\ last = Op("init", 0, NullPtr, NullPtr, Ok, <<>>, <<>>, "none", "none")

Owned(g) == guards[g].st = "owned"

RECURSIVE Pushes(_)
\* The elements the Vecs of the guards 1..n hold together.
Pushes(n) == IF n = 0 THEN 0 ELSE Len(guards[n].v.ptrs) + Pushes(n - 1)

\* Whether the push of a create call on g finds the Vec full and allocated.
Reallocates(g) == guards[g].v.cap > 0 /\ Len(guards[g].v.ptrs) = guards[g].v.cap

\* A fault f is injected only into an engine call that reaches its fallible
\* step, i.e. one that returns `st` when nothing fails.
Inject(f, st) == f = "none" \/ st = MH_OK

\* The record of the handles returned so far, after a create call's result c.
Handed(g, c) == Append(guards[g].handed, c.handle.buf)

\* let guard = DetourGuard::new(): the next guard value comes to exist on Ok.
New(G) ==
    \E g \in G :
        /\ guards[g].st = "none"
        /\ \A h \in G : h < g => guards[h].st # "none"
        /\ LET r == new(engine)
           IN  /\ engine' = r.e
               /\ guards' = IF r.res = Ok
                            THEN [guards EXCEPT ![g] = GuardDefault]
                            ELSE guards
               /\ last' = Op("new", g, NullPtr, NullPtr, r.res, r.calls, r.sts,
                             IF r.res = Ok THEN "owned" ELSE "none", "none")

\* guard.try_close()
TryClose(G) ==
    \E g \in G, f \in UninitFaults :
        /\ Owned(g)
        /\ Inject(f, MH_Uninitialize(engine, "none").st)
        /\ LET r == try_close(engine, f)
           IN  /\ engine' = r.e
               /\ guards' = [guards EXCEPT
                                ![g].closedOk = @ \/ r.res = Ok]
               /\ last' = Op("try_close", g, NullPtr, NullPtr, r.res, r.calls, r.sts, "owned",
                             "none")

\* guard.close()
Close(G) ==
    \E g \in G, f1 \in UninitFaults, f2 \in UninitFaults :
        /\ Owned(g)
        /\ Inject(f1, MH_Uninitialize(engine, "none").st)
        /\ f2 = "none" \/ f1 # "none"
        /\ LET r == close(engine, f1, f2)
           IN  /\ engine' = r.e
               /\ guards' = [guards EXCEPT
                                ![g] = IF r.fate = "owned"
                                       THEN [@ EXCEPT !.closedOk = @ \/ r.res = Ok]
                                       ELSE Gone]
               /\ last' = Op("close", g, NullPtr, NullPtr, r.res, r.calls, r.sts, r.fate,
                             r.diag)

\* The guard goes out of scope (or drop(guard)).
Drop(G) ==
    \E g \in G, f \in UninitFaults :
        /\ Owned(g)
        /\ Inject(f, MH_Uninitialize(engine, "none").st)
        /\ LET r == drop(engine, f)
           IN  /\ engine' = r.e
               /\ guards' = [guards EXCEPT ![g] = Gone]
               /\ last' = Op("drop", g, NullPtr, NullPtr, "none", r.calls, r.sts, "dropped",
                             r.diag)

\* guard.set_thread_freeze_method(m)
SetThreadFreezeMethod(G) ==
    \E g \in G, m \in ThreadFreezeMethod :
        /\ Owned(g)
        /\ LET r == set_thread_freeze_method(engine, m)
           IN  /\ engine' = r.e
               /\ UNCHANGED guards
               /\ last' = Op("set_thread_freeze_method", g, NullPtr, NullPtr,
                             r.res, r.calls, r.sts, "owned", "none")

\* guard.create_hook::<T>(target, detour), while the Vecs hold fewer than P
\* elements.
CreateHook(G, T, D, P) ==
    \E g \in G, t \in T, d \in D, f \in CreateFaults, moved \in BOOLEAN :
        /\ Owned(g)
        /\ Pushes(MaxGuards) < P
        /\ moved => Reallocates(g)
        /\ Inject(f, MH_CreateHook(engine, t, d, "none").st)
        /\ LET r == create_hook(engine, guards[g].v, t, d, f, moved)
           IN  /\ engine' = r.e
               /\ guards' = [guards EXCEPT ![g].v = r.v,
                                           ![g].handed = Handed(g, r)]
               /\ last' = Op("create_hook", g, t, d, r.res, r.calls, r.sts, "owned",
                             "none")

\* guard.create_and_enable_hook::<T>(target, detour)
CreateAndEnableHook(G, T, D, P) ==
    \E g \in G, t \in T, d \in D, f1 \in CreateFaults, f2 \in TxFaults,
       moved \in BOOLEAN :
        /\ Owned(g)
        /\ Pushes(MaxGuards) < P
        /\ moved => Reallocates(g)
        /\ Inject(f1, MH_CreateHook(engine, t, d, "none").st)
        /\ f2 = "none" \/ MH_CreateHook(engine, t, d, f1).st = MH_OK
        /\ LET r == create_and_enable_hook(engine, guards[g].v, t, d, f1, f2,
                                           moved)
           IN  /\ engine' = r.e
               /\ guards' = [guards EXCEPT ![g].v = r.v,
                                           ![g].handed = Handed(g, r)]
               /\ last' = Op("create_and_enable_hook", g, t, d, r.res,
                             r.calls, r.sts, "owned", "none")

\* guard.enable_hook(target)
EnableHook(G, T) ==
    \E g \in G, t \in T \cup {NullPtr}, f \in TxFaults :
        /\ Owned(g)
        /\ Inject(f, enable_hook(engine, t, "none").res)
        /\ LET r == enable_hook(engine, t, f)
           IN  /\ engine' = r.e
               /\ UNCHANGED guards
               /\ last' = Op("enable_hook", g, t, NullPtr, r.res, r.calls, r.sts, "owned",
                             "none")

\* guard.enable_all_hooks()
EnableAllHooks(G) ==
    \E g \in G, f \in TxFaults :
        /\ Owned(g)
        /\ Inject(f, MH_EnableHook(engine, MH_ALL_HOOKS, "none").st)
        /\ LET r == enable_all_hooks(engine, f)
           IN  /\ engine' = r.e
               /\ UNCHANGED guards
               /\ last' = Op("enable_all_hooks", g, NullPtr, NullPtr, r.res, r.calls, r.sts,
                             "owned", "none")

\* guard.disable_hook(target)
DisableHook(G, T) ==
    \E g \in G, t \in T \cup {NullPtr}, f \in TxFaults :
        /\ Owned(g)
        /\ Inject(f, disable_hook(engine, t, "none").res)
        /\ LET r == disable_hook(engine, t, f)
           IN  /\ engine' = r.e
               /\ UNCHANGED guards
               /\ last' = Op("disable_hook", g, t, NullPtr, r.res, r.calls, r.sts, "owned",
                             "none")

\* guard.disable_all_hooks()
DisableAllHooks(G) ==
    \E g \in G, f \in TxFaults :
        /\ Owned(g)
        /\ Inject(f, MH_DisableHook(engine, MH_ALL_HOOKS, "none").st)
        /\ LET r == disable_all_hooks(engine, f)
           IN  /\ engine' = r.e
               /\ UNCHANGED guards
               /\ last' = Op("disable_all_hooks", g, NullPtr, NullPtr, r.res, r.calls, r.sts,
                             "owned", "none")

\* Every operation on one guard, from new() to its end, over all targets
\* and replacements.
Next ==
    \/ New(FirstGuard)
    \/ TryClose(FirstGuard)
    \/ Close(FirstGuard)
    \/ Drop(FirstGuard)
    \/ SetThreadFreezeMethod(FirstGuard)
    \/ CreateHook(FirstGuard, Targets, Detours, MaxCreate)
    \/ CreateAndEnableHook(FirstGuard, Targets, Detours, MaxCreate)
    \/ EnableHook(FirstGuard, Targets)
    \/ EnableAllHooks(FirstGuard)
    \/ DisableHook(FirstGuard, Targets)
    \/ DisableAllHooks(FirstGuard)

Spec == Init /\ [][Next]_vars

\* Every operation on every guard, in any interleaving, over one target and
\* one replacement.
NextLife ==
    \/ New(GuardIds)
    \/ TryClose(GuardIds)
    \/ Close(GuardIds)
    \/ Drop(GuardIds)
    \/ SetThreadFreezeMethod(GuardIds)
    \/ CreateHook(GuardIds, OneTarget, OneDetour, MaxLifeCreate)
    \/ CreateAndEnableHook(GuardIds, OneTarget, OneDetour, MaxLifeCreate)
    \/ EnableHook(GuardIds, OneTarget)
    \/ EnableAllHooks(GuardIds)
    \/ DisableHook(GuardIds, OneTarget)
    \/ DisableAllHooks(GuardIds)

SpecLife == Init /\ [][NextLife]_vars

\* One guard with up to MaxPush create calls on it.
NextVec ==
    \/ New(FirstGuard)
    \/ TryClose(FirstGuard)
    \/ Drop(FirstGuard)
    \/ CreateHook(FirstGuard, Targets, OneDetour, MaxPush)
    \/ CreateAndEnableHook(FirstGuard, Targets, OneDetour, MaxPush)
    \/ EnableHook(FirstGuard, Targets)
    \/ DisableHook(FirstGuard, Targets)

SpecVec == Init /\ [][NextVec]_vars

(***************************************************************************)
(* Properties.                                                             *)
(***************************************************************************)
UninitCall == Call("MH_Uninitialize", NullPtr)

\* The MH_Uninitialize calls among the engine calls of an operation.
Uninits(calls) == {i \in 1..Len(calls) : calls[i] = UninitCall}

\* Some guard is live: a caller owns it and the engine it initialized has
\* not been torn down.
SomeGuardLive == engine.init /\ \E g \in GuardIds : Owned(g)

\* C1 (exclusivity).  While a guard is live, DetourGuard::new() fails with
\* AlreadyInitialized and yields no guard; when the engine is not
\* initialized it succeeds and yields one; and after a close() that returned
\* Ok, or a drop whose teardown succeeded, the next new() succeeds.
C1_Exclusivity ==
    [][ /\ (last'.op = "new" /\ SomeGuardLive)
            => /\ last'.res = "AlreadyInitialized"
               /\ guards' = guards
        /\ (last'.op = "new" /\ ~engine.init)
            => /\ last'.res = Ok
               /\ guards'[last'.g].st = "owned"
        /\ ( \/ (last'.op = "close" /\ last'.res = Ok)
             \/ (last'.op = "drop" /\ last'.diag = Ok) )
            => new(engine').res = Ok
      ]_vars

\* A second new() was refused while the first guard was live.
C1_Witness ==
    /\ last.op = "new"
    /\ last.res = "AlreadyInitialized"
    /\ last.g = 2
    /\ Owned(1)
    /\ engine.init

\* C2.  Automatic teardown never runs after an explicit close succeeded:
\* once try_close() or close() has returned Ok on a guard, the guard going
\* out of scope issues no MH_Uninitialize call.
C2_NoTeardownAfterClose ==
    [][ \A g \in GuardIds :
            (guards[g].closedOk /\ last'.op = "drop" /\ last'.g = g)
                => Uninits(last'.calls) = {}
      ]_vars

\* C3 as stated.  A close() whose teardown fails leaves the guard with the
\* caller and runs no automatic teardown within the call.
C3_FailedCloseKeepsGuard ==
    [][ (last'.op = "close" /\ last'.res # Ok)
            => /\ guards'[last'.g].st = "owned"
               /\ last'.fate = "owned"
               /\ Cardinality(Uninits(last'.calls)) = 1
      ]_vars

\* C3 as amended.  A close() whose teardown fails returns the error of that
\* first attempt, but the guard is consumed all the same: it is dropped
\* before close() returns, so the automatic teardown (a second
\* MH_Uninitialize, its outcome only printed) runs within the failing call
\* and no guard is left to retry on.  A close() that returns Ok forgets the
\* guard after a single MH_Uninitialize.
C3_FailedCloseDropsGuard ==
    [][ /\ (last'.op = "close" /\ last'.res # Ok)
            => /\ last'.res = IF engine.init THEN "UnableToInitialize"
                                             ELSE "NotInitialized"
               /\ guards'[last'.g].st = "gone"
               /\ last'.fate = "dropped"
               /\ last'.calls = <<UninitCall, UninitCall>>
               /\ last'.diag # "none"
        /\ (last'.op = "close" /\ last'.res = Ok)
            => /\ guards'[last'.g].st = "gone"
               /\ last'.fate = "forgotten"
               /\ last'.calls = <<UninitCall>>
               /\ last'.diag = "none"
      ]_vars

\* A close() failed with UnableToInitialize and the guard is gone.
C3_Witness ==
    /\ last.op = "close"
    /\ last.res = "UnableToInitialize"
    /\ guards[last.g].st = "gone"
    /\ Cardinality(Uninits(last.calls)) = 2

\* C4.  While a guard is owned and no close of it has succeeded, every
\* reference create_hook / create_and_enable_hook returned on it still
\* points into the live buffer of original_pointers, at a slot that holds
\* the trampoline address.
C4_HandlesStayValid ==
    \A g \in GuardIds :
        (Owned(g) /\ ~guards[g].closedOk)
            => \A i \in 1..Len(guards[g].handed) :
                   guards[g].handed[i] # 0
                       => /\ guards[g].handed[i] = guards[g].v.buf
                          /\ guards[g].v.ptrs[i].kind = "tramp"

\* C5 (round-trip patch).  After create_and_enable_hook(T, R) returns Ok a
\* call to T runs R; after disable_hook(T) returns Ok a call to T runs T.
C5_RoundTrip ==
    [][ /\ (last'.op = "create_and_enable_hook" /\ last'.res = Ok)
            => Runs(engine', last'.target) = last'.detour
        /\ (last'.op = "disable_hook" /\ last'.res = Ok)
            => Runs(engine', last'.target) = last'.target
      ]_vars

\* disable_hook(T) has just succeeded on a registered T, which runs as T.
C5_Witness ==
    /\ last.op = "disable_hook"
    /\ last.res = Ok
    /\ engine.hooks[last.target].created
    /\ engine.hooks[last.target].detour \in Detours
    /\ Runs(engine, last.target) = last.target

\* C6 (redundant toggles).  enable_hook(T) on an enabled hook fails with
\* Enabled, disable_hook(T) on a registered hook that is not enabled fails
\* with Disabled, and neither changes the hook table.
C6_RedundantToggle ==
    [][ /\ ( /\ last'.op = "enable_hook"
             /\ last'.target \in Targets
             /\ engine.hooks[last'.target].created
             /\ engine.hooks[last'.target].enabled )
            => (last'.res = "Enabled" /\ engine' = engine)
        /\ ( /\ last'.op = "disable_hook"
             /\ last'.target \in Targets
             /\ engine.hooks[last'.target].created
             /\ ~engine.hooks[last'.target].enabled )
            => (last'.res = "Disabled" /\ engine' = engine)
      ]_vars

\* disable_hook(T) was refused with Disabled on a registered T.
C6_Witness ==
    /\ last.op = "disable_hook"
    /\ last.res = "Disabled"
    /\ engine.hooks[last.target].created
    /\ ~engine.hooks[last.target].enabled

\* C7 (null rejection).  In every state, enable_hook(null) and
\* disable_hook(null) return InvalidTarget, issue no engine call and change
\* neither the engine nor the guard.
C7_NullRejected ==
    [][ (last'.op \in {"enable_hook", "disable_hook"} /\ last'.target = NullPtr)
            => /\ last'.res = "InvalidTarget"
               /\ last'.calls = <<>>
               /\ engine' = engine
               /\ guards' = guards
      ]_vars

\* enable_hook(null) was refused while a registered hook was disabled.
C7_Witness ==
    /\ last.op = "enable_hook"
    /\ last.target = NullPtr
    /\ last.res = "InvalidTarget"
    /\ \E t \in Targets : engine.hooks[t].created /\ ~engine.hooks[t].enabled

\* The operations of a guard other than its construction and teardown.
HookOps ==
    { "set_thread_freeze_method", "create_hook", "create_and_enable_hook",
      "enable_hook", "disable_hook", "enable_all_hooks", "disable_all_hooks" }

\* C8 (teardown invalidation).  Once an explicit close of a guard has
\* returned Ok, every further operation on that guard fails and changes no
\* engine state.
C8_NoOpAfterClose ==
    [][ \A g \in GuardIds :
            (guards[g].closedOk /\ last'.g = g /\ last'.op \in HookOps)
                => (last'.res # Ok /\ engine' = engine)
      ]_vars

\* The registered targets of the hook table.
Registered(e) == {t \in Targets : e.hooks[t].created}

\* Every order in which the elements of S can be taken one by one.
Orders(S) ==
    {o \in [1..Cardinality(S) -> S] :
        \A i, j \in 1..Cardinality(S) : o[i] = o[j] => i = j}

RECURSIVE EnableEach(_, _)
\* enable_hook on each target of `order` in turn, with no contention.
EnableEach(e, order) ==
    IF order = <<>> THEN [e |-> e, ok |-> TRUE]
    ELSE LET r == enable_hook(e, Head(order), "none")
             rest == EnableEach(r.e, Tail(order))
         IN  [e |-> rest.e, ok |-> r.res = Ok /\ rest.ok]

RECURSIVE DisableEach(_, _)
\* disable_hook on each target of `order` in turn, with no contention.
DisableEach(e, order) ==
    IF order = <<>> THEN [e |-> e, ok |-> TRUE]
    ELSE LET r == disable_hook(e, Head(order), "none")
             rest == DisableEach(r.e, Tail(order))
         IN  [e |-> rest.e, ok |-> r.res = Ok /\ rest.ok]

\* C9 (bulk equivalence).  From a state whose registered hooks are all
\* disabled, a successful enable_all_hooks() reaches the engine state that
\* enable_hook on each registered target reaches, in every order; likewise
\* disable_all_hooks() and disable_hook from a state whose registered hooks
\* are all enabled.
C9_BulkEquivalence ==
    [][ /\ ( /\ last'.op = "enable_all_hooks"
             /\ last'.res = Ok
             /\ \A t \in Registered(engine) : ~engine.hooks[t].enabled )
            => \A o \in Orders(Registered(engine)) :
                   EnableEach(engine, o) = [e |-> engine', ok |-> TRUE]
        /\ ( /\ last'.op = "disable_all_hooks"
             /\ last'.res = Ok
             /\ \A t \in Registered(engine) : engine.hooks[t].enabled )
            => \A o \in Orders(Registered(engine)) :
                   DisableEach(engine, o) = [e |-> engine', ok |-> TRUE]
      ]_vars

\* enable_all_hooks() has just succeeded with both targets registered.
C9_Witness ==
    /\ last.op = "enable_all_hooks"
    /\ last.res = Ok
    /\ Registered(engine) = Targets
    /\ \A t \in Targets : engine.hooks[t].enabled

TypedErrors ==
    { "AlreadyInitialized", "NotInitialized", "UnableToInitialize",
      "AlreadyCreated", "NotCreated", "Enabled", "Disabled", "NotExecutable",
      "FailedTransactionBegin", "FailedTransactionCommit",
      "UnsupportedFunction", "FailedAllocatingMemory", "ModuleNotFound",
      "FunctionNotFound", "InvalidTarget" }

\* The error kind documented for each native status.
StatusErrorTable ==
    { <<"MH_ERROR_ALREADY_INITIALIZED", "AlreadyInitialized">>,
      <<"MH_ERROR_NOT_INITIALIZED", "NotInitialized">>,
      <<"MH_ERROR_UNABLE_TO_UNINITIALIZE", "UnableToInitialize">>,
      <<"MH_ERROR_ALREADY_CREATED", "AlreadyCreated">>,
      <<"MH_ERROR_NOT_CREATED", "NotCreated">>,
      <<"MH_ERROR_ENABLED", "Enabled">>,
      <<"MH_ERROR_DISABLED", "Disabled">>,
      <<"MH_ERROR_NOT_EXECUTABLE", "NotExecutable">>,
      <<"MH_ERROR_DETOURS_TRANSACTION_BEGIN", "FailedTransactionBegin">>,
      <<"MH_ERROR_DETOURS_TRANSACTION_COMMIT", "FailedTransactionCommit">>,
      <<"MH_ERROR_UNSUPPORTED_FUNCTION", "UnsupportedFunction">>,
      <<"MH_ERROR_MEMORY_ALLOC", "FailedAllocatingMemory">>,
      <<"MH_ERROR_MODULE_NOT_FOUND", "ModuleNotFound">>,
      <<"MH_ERROR_FUNCTION_NOT_FOUND", "FunctionNotFound">> }

\* What an operation reports for the native status st.
Reported(st, res) ==
    IF st = MH_OK THEN res = Ok ELSE <<st, res>> \in StatusErrorTable

\* The first status of sts that is not MH_OK; MH_OK when there is none.
FirstFailure(sts) ==
    IF \A i \in 1..Len(sts) : sts[i] = MH_OK THEN MH_OK
    ELSE sts[CHOOSE i \in 1..Len(sts) :
                 /\ sts[i] # MH_OK
                 /\ \A j \in 1..(i - 1) : sts[j] = MH_OK]

\* Error::from sends the native error statuses to distinct kinds, none of
\* them InvalidTarget or the unreachable arm.
ErrorFromDistinct ==
    \A s \in NativeErrors :
        /\ ErrorFrom(s) \in TypedErrors \ {"InvalidTarget"}
        /\ \A t \in NativeErrors : ErrorFrom(s) = ErrorFrom(t) => s = t

\* C11 (status mapping).  Every operation that calls the engine returns Ok
\* exactly when all its engine calls returned MH_OK, and else the one typed
\* error documented for the first failing status; Drop reports the status
\* it got on its diagnostic channel; InvalidTarget comes with no engine
\* call at all; and the mapping sends the native error statuses to distinct
\* kinds other than InvalidTarget, none of them to the unreachable arm.
C11_StatusMapping ==
    [][ /\ (last'.op # "drop")
            => /\ Len(last'.sts) = Len(last'.calls)
               /\ last'.res \in TypedErrors \cup {Ok}
               /\ IF last'.sts = <<>>
                  THEN last'.res = "InvalidTarget"
                  ELSE /\ last'.res # "InvalidTarget"
                       /\ Reported(FirstFailure(last'.sts), last'.res)
        /\ (last'.op = "drop") => Reported(last'.sts[1], last'.diag)
        /\ (last'.op = "close" /\ Len(last'.sts) = 2)
            => Reported(last'.sts[2], last'.diag)
        /\ ErrorFromDistinct
      ]_vars

\* create_and_enable_hook has reported the failure of its second call.
C11_Witness ==
    /\ last.op = "create_and_enable_hook"
    /\ last.sts = <<MH_OK, "MH_ERROR_DETOURS_TRANSACTION_COMMIT">>
    /\ last.res = "FailedTransactionCommit"

\* The guards that exist: constructed, and neither consumed by close() nor
\* dropped.
LiveGuards == {g \in GuardIds : Owned(g)}

\* C12 (one live guard).  In every reachable state at most one guard that
\* was neither consumed by close() nor dropped exists.
C12_AtMostOneGuard == Cardinality(LiveGuards) <= 1

\* The operation just taken made a successful engine call fn addressed to
\* one of the addresses in args.
Succeeded(o, fn, args) ==
    \E i \in 1..Len(o.calls) :
        /\ o.calls[i].fn = fn
        /\ o.calls[i].arg \in args
        /\ o.sts[i] = MH_OK

\* C13 (register, then enable).  After a successful create_hook(T, R) the
\* target T is registered and disabled, and a call to T still runs T; a
\* target starts being intercepted only in a step that makes a successful
\* engine enable call for it or for all hooks: enable_hook or
\* enable_all_hooks on a hook registered before, or the enable_hook that
\* create_and_enable_hook makes after its create_hook.
C13_CreateThenEnable ==
    [][ /\ (last'.op = "create_hook" /\ last'.res = Ok)
            => /\ engine'.hooks[last'.target].created
               /\ ~engine'.hooks[last'.target].enabled
               /\ engine'.hooks[last'.target].detour = last'.detour
               /\ Runs(engine', last'.target) = last'.target
        /\ \A t \in Targets :
               (Runs(engine, t) = t /\ Runs(engine', t) # t)
                   => /\ last'.res = Ok
                      /\ Succeeded(last', "MH_EnableHook", {t, MH_ALL_HOOKS})
                      /\ \/ /\ last'.op \in {"enable_hook", "enable_all_hooks"}
                            /\ engine.hooks[t].created
                         \/ /\ last'.op = "create_and_enable_hook"
                            /\ last'.target = t
                            /\ Len(last'.calls) = 2
      ]_vars

\* A hook has just been registered and is not intercepted, while another
\* hook of the same guard is.
C13_Witness ==
    /\ last.op = "create_hook"
    /\ last.res = Ok
    /\ Runs(engine, last.target) = last.target
    /\ \E u \in Targets : Runs(engine, u) # u

\* C14 (no rollback).  When the create step of create_and_enable_hook(T, R)
\* succeeds and its enable step fails, the operation returns the error of
\* the enable step and T stays registered to R and disabled: a create_hook
\* of T then fails with AlreadyCreated and an enable_hook of T activates
\* the hook.  When the create step fails, it is the only engine call made,
\* its error is returned and the engine is unchanged.
C14_NoRollback ==
    [][ (last'.op = "create_and_enable_hook")
            => LET t == last'.target
                   sts == last'.sts
               IN  /\ last'.calls[1] = Call("MH_CreateHook", t)
                   /\ (sts[1] # MH_OK)
                       => /\ last'.calls = <<Call("MH_CreateHook", t)>>
                          /\ Reported(sts[1], last'.res)
                          /\ engine' = engine
                   /\ (sts[1] = MH_OK)
                       => /\ last'.calls = <<Call("MH_CreateHook", t),
                                             Call("MH_EnableHook", t)>>
                          /\ Reported(sts[2], last'.res)
                   /\ (sts[1] = MH_OK /\ sts[2] # MH_OK)
                       => /\ engine'.hooks[t].created
                          /\ engine'.hooks[t].detour = last'.detour
                          /\ ~engine'.hooks[t].enabled
                          /\ \A d \in Detours :
                                 create_hook(engine', guards'[last'.g].v, t, d,
                                             "none", FALSE).res
                                     = "AlreadyCreated"
                          /\ LET n == enable_hook(engine', t, "none")
                             IN  /\ n.res = Ok
                                 /\ Runs(n.e, t) = last'.detour
      ]_vars

\* create_and_enable_hook has registered its hook and failed to enable it.
C14_Witness ==
    /\ last.op = "create_and_enable_hook"
    /\ last.sts = <<MH_OK, "MH_ERROR_DETOURS_TRANSACTION_BEGIN">>
    /\ last.res = "FailedTransactionBegin"
    /\ engine.hooks[last.target].created
    /\ ~engine.hooks[last.target].enabled

\* The operation o was a teardown that the engine answered with MH_OK:
\* try_close() or close() returning Ok, or the Drop (of an owned guard, or
\* of the guard a failed close() gives up) whose try_close was Ok.
TeardownOk(o) ==
    \/ o.op \in {"try_close", "close"} /\ o.res = Ok
    \/ o.op \in {"drop", "close"} /\ o.diag = Ok

\* C15 (teardown removes every hook).  A successful teardown leaves, in the
\* same step, the hook table empty and no target intercepted, so that a
\* guard constructed next can register any target, the ones hooked before
\* included, and create_hook does not answer AlreadyCreated.
C15_TeardownRemovesHooks ==
    [][ TeardownOk(last')
            => /\ engine'.hooks = EmptyTable
               /\ \A t \in Targets : Runs(engine', t) = t
               /\ LET n == new(engine')
                  IN  /\ n.res = Ok
                      /\ \A t \in Targets, d \in Detours :
                             LET c == create_hook(n.e, VecNew, t, d, "none",
                                                  FALSE)
                             IN  /\ c.res = Ok
                                 /\ c.e.hooks[t].created
      ]_vars

\* A guard that had registered a hook has been torn down with success and
\* the hook table is empty.
C15_Witness ==
    /\ TeardownOk(last)
    /\ last.op = "try_close"
    /\ \E i \in 1..Len(guards[last.g].v.ptrs) :
           guards[last.g].v.ptrs[i] # NullPtr
    /\ engine.hooks = EmptyTable

\* The trampoline addresses the engine hands out.
Trampolines == {Tramp(t) : t \in Targets}

\* C16 (original_pointers).  Every entry of the original_pointers of a live
\* guard holds the trampoline address of a hook, never null: a create_hook
\* that fails leaves no entry behind.
C16_SlotsHoldTrampolines ==
    \A g \in GuardIds :
        Owned(g) =>
            \A i \in 1..Len(guards[g].v.ptrs) :
                guards[g].v.ptrs[i] \in Trampolines

\* C17 (bulk calls are single).  enable_all_hooks() and disable_all_hooks()
\* each make exactly one engine call, addressed to the all-hooks sentinel,
\* whether no hook, one hook or several are registered, and report the
\* status of that one call.
C17_SingleBulkCall ==
    [][ /\ (last'.op = "enable_all_hooks")
            => /\ last'.calls = <<Call("MH_EnableHook", MH_ALL_HOOKS)>>
               /\ Len(last'.sts) = 1
               /\ Reported(last'.sts[1], last'.res)
        /\ (last'.op = "disable_all_hooks")
            => /\ last'.calls = <<Call("MH_DisableHook", MH_ALL_HOOKS)>>
               /\ Len(last'.sts) = 1
               /\ Reported(last'.sts[1], last'.res)
      ]_vars

\* disable_all_hooks() has just switched off several hooks with one call.
C17_Witness ==
    /\ last.op = "disable_all_hooks"
    /\ last.res = Ok
    /\ Len(last.calls) = 1
    /\ Registered(engine) = Targets
    /\ \A t \in Targets : ~engine.hooks[t].enabled

\* C18 (freeze policy frame).  set_thread_freeze_method(p) makes the one
\* engine call that sets the policy: on Ok the engine's policy is the
\* native value of p, on Err the engine is unchanged, and in both cases the
\* registered hooks, their replacements and their enabled states, and the
\* guard's original_pointers stay as they were.  No other step changes the
\* policy, so every later transaction runs under the policy of the most
\* recent successful set_thread_freeze_method.
C18_FreezePolicyFrame ==
    [][ /\ (last'.op = "set_thread_freeze_method")
            => /\ Len(last'.calls) = 1
               /\ last'.calls[1].fn = "MH_SetThreadFreezeMethod"
               /\ last'.calls[1].arg
                      \in {ThreadFreezeMethodInto(p) : p \in ThreadFreezeMethod}
               /\ engine'.hooks = engine.hooks
               /\ engine'.init = engine.init
               /\ guards' = guards
               /\ (last'.res = Ok) => engine'.freeze = last'.calls[1].arg
               /\ (last'.res # Ok) => engine' = engine
        /\ (engine'.freeze # engine.freeze)
            => /\ last'.op = "set_thread_freeze_method"
               /\ last'.res = Ok
      ]_vars

\* The policy has just been set to None with a hook enabled, and the hook
\* is still enabled.
C18_Witness ==
    /\ last.op = "set_thread_freeze_method"
    /\ last.res = Ok
    /\ engine.freeze = "MH_FREEZE_METHOD_NONE_UNSAFE"
    /\ \E t \in Targets : engine.hooks[t].created /\ engine.hooks[t].enabled

\* C19 (freeze policy conversions).  Converting a policy to its native
\* value and back yields the policy; the conversion from native values is
\* defined on every native constant, sending ORIGINAL and
\* FAST_UNDOCUMENTED to Original and NONE_UNSAFE to None; and the native
\* value that set_thread_freeze_method passes to the engine, and the one
\* the engine holds, convert back to a policy.
C19_FreezeConversions ==
    /\ \A p \in ThreadFreezeMethod :
           /\ ThreadFreezeMethodInto(p) \in NativeFreezeMethods
           /\ ThreadFreezeMethodFrom(ThreadFreezeMethodInto(p)) = p
    /\ \A n \in NativeFreezeMethods :
           ThreadFreezeMethodFrom(n) \in ThreadFreezeMethod
    /\ ThreadFreezeMethodFrom("MH_FREEZE_METHOD_ORIGINAL") = "Original"
    /\ ThreadFreezeMethodFrom("MH_FREEZE_METHOD_FAST_UNDOCUMENTED") = "Original"
    /\ ThreadFreezeMethodFrom("MH_FREEZE_METHOD_NONE_UNSAFE") = "None"
    /\ ThreadFreezeMethodFrom(engine.freeze) \in ThreadFreezeMethod
    /\ (last.op = "set_thread_freeze_method")
           => ThreadFreezeMethodInto(ThreadFreezeMethodFrom(last.calls[1].arg))
                  = last.calls[1].arg

\* set_thread_freeze_method has passed the native value of None, and the
\* engine's policy converts back to None.
C19_Witness ==
    /\ last.op = "set_thread_freeze_method"
    /\ last.calls = <<Call("MH_SetThreadFreezeMethod",
                           ThreadFreezeMethodInto("None"))>>
    /\ ThreadFreezeMethodFrom(engine.freeze) = "None"

=============================================================================
